---- MODULE Spec2Model ----
(***************************************************************************)
(* A model of libretime_tagger.py: the MP3TaggerEngine functions (field    *)
(* validators, title/filename composition and truncation, tag writing,     *)
(* rename) and MP3TaggerGUI.process_operation, the handler that runs a     *)
(* preview or a save over one audio file; two saves of one file served     *)
(* side by side; and the autoload preference over restarts of the          *)
(* application.                                                            *)
(*                                                                         *)
(* Text is a sequence of characters; a character is a one-element string.  *)
(* File names are texts; the directory of the selected file is a function  *)
(* from the names of its entries to their contents.                        *)
(***************************************************************************)
EXTENDS Integers, Sequences, FiniteSets, TLC

(* ------------------------------------------------------------------ *)
(* Bounds of the model and program constants                            *)
(* ------------------------------------------------------------------ *)

\* libretime_tagger.py:306
SOUNDCLOUD_MAX_TITLE == 100

\* libretime_tagger.py:307, MAX_COVER_SIZE = (1400, 1400): the side
MAX_COVER_SIZE == 1400

\* length of the long episode title of the sample inputs
LongTitleLen == 200

\* length of the sample text that serves as show, contributors or title
DupLen == 60

\* length of the long show name of the sample inputs
LongShowLen == 95

\* number of operations (button clicks) one behaviour of the GUI runs
MaxRuns == 2

\* length of the longest text of the sample texts over an alphabet
MaxTextLen == 4

\* number of direct calls one behaviour makes on the files
MaxCalls == 3

\* starts of the application
MaxStarts == 3

(* ------------------------------------------------------------------ *)
(* Text                                                                 *)
(* ------------------------------------------------------------------ *)

\* U+2026, one character for Python's len()
Ellipsis == "U+2026"

Whitespace == {" ", "\t"}

Digits == {"0", "1", "2", "3", "4", "5", "6", "7", "8", "9"}

Rep(c, n) == [i \in 1..n |-> c]

Sep == <<" ", "-", " ">>

Mp3Ext == <<".", "m", "p", "3">>

\* sep.join(parts)
Join(parts, sep) ==
    LET joined[i \in 0..Len(parts)] ==
            IF i = 0 THEN <<>>
            ELSE IF i = 1 THEN parts[1]
            ELSE joined[i - 1] \o sep \o parts[i]
    IN  joined[Len(parts)]

\* the number of leading characters of s that are in set
LeadingRun(s, set) ==
    CHOOSE k \in 0..Len(s) :
        /\ \A i \in 1..k : s[i] \in set
        /\ k < Len(s) => s[k + 1] \notin set

\* the number of trailing characters of s that are in set
TrailingRun(s, set) ==
    CHOOSE k \in 0..Len(s) :
        /\ \A i \in (Len(s) - k + 1)..Len(s) : s[i] \in set
        /\ k < Len(s) => s[Len(s) - k] \notin set

\* str.lstrip()
LStrip(s) == SubSeq(s, LeadingRun(s, Whitespace) + 1, Len(s))

\* str.rstrip()
RStrip(s) == SubSeq(s, 1, Len(s) - TrailingRun(s, Whitespace))

\* str.strip()
Strip(s) == LStrip(RStrip(s))

\* str.rstrip(".")
RStripDots(s) == SubSeq(s, 1, Len(s) - TrailingRun(s, {"."}))

\* s[:n] for n >= 0
Prefix(s, n) == SubSeq(s, 1, IF n < Len(s) THEN n ELSE Len(s))

\* [p for p in parts if p != x]
Without(parts, x) == SelectSeq(parts, LAMBDA p : p # x)

\* x in parts
Contains(parts, x) == \E i \in 1..Len(parts) : parts[i] = x

\* parts.index(x), 1-based: the first position holding x
IndexOf(parts, x) == CHOOSE i \in 1..Len(parts) :
                        /\ parts[i] = x
                        /\ \A j \in 1..(i - 1) : parts[j] # x

\* whether sub occurs in s as a contiguous run
Occurs(sub, s) ==
    \E i \in 1..(Len(s) - Len(sub) + 1) : SubSeq(s, i, i + Len(sub) - 1) = sub

\* position of the last c in s, 0 when there is none
LastPos(s, c) ==
    IF \E i \in 1..Len(s) : s[i] = c
    THEN CHOOSE i \in 1..Len(s) : s[i] = c /\ \A j \in (i + 1)..Len(s) : s[j] # c
    ELSE 0

\* the k-th smallest element of a set of integers
Kth(set, k) == CHOOSE p \in set : Cardinality({q \in set : q < p}) = k - 1

\* the pieces of s between the positions at, which hold the separator
SplitAt(s, at) ==
    [k \in 1..(Cardinality(at) + 1) |->
        SubSeq(s, IF k = 1 THEN 1 ELSE Kth(at, k - 1) + 1,
                  IF k = Cardinality(at) + 1 THEN Len(s) ELSE Kth(at, k) - 1)]

\* s.split(c) for a one-character separator
Split(s, c) == SplitAt(s, {i \in 1..Len(s) : s[i] = c})

(* ------------------------------------------------------------------ *)
(* MP3TaggerEngine: composition of the filename and of the tag title    *)
(* ------------------------------------------------------------------ *)

ForbiddenChars == {"\\", "/", ":", "*", "?", "\"", "<", ">", "|"}

\* re.sub(r'[\\/:*?"<>|]', "_", name)
ReplaceForbidden(name) ==
    [i \in 1..Len(name) |-> IF name[i] \in ForbiddenChars THEN "_" ELSE name[i]]

sanitize_filename(name) == RStripDots(Strip(ReplaceForbidden(name)))

build_filename_parts(show, episode, episode_title, hosts, date) ==
    <<show>>
      \o (IF episode # <<>> THEN <<episode>> ELSE <<>>)
      \o (IF episode_title # <<>> THEN <<episode_title>> ELSE <<>>)
      \o (IF hosts # <<>> THEN <<hosts>> ELSE <<>>)
      \o (IF date # <<>> THEN <<date>> ELSE <<>>)

\* lines 381-384: the budget left for the episode title, the limit minus the
\* length of the join of the parts that differ from the title, minus 3
RemainingBudget(filename_parts, episode_title) ==
    SOUNDCLOUD_MAX_TITLE - (Len(Join(Without(filename_parts, episode_title), Sep)) + 3)

\* lines 385-389
TruncateTo(episode_title, remaining) ==
    IF remaining <= 0
    THEN <<<<>>, TRUE>>
    ELSE <<Prefix(episode_title, remaining) \o <<Ellipsis>>, TRUE>>

\* returns <<title, was_truncated>>
truncate_episode_title(filename_parts, episode_title) ==
    IF Len(Join(filename_parts, Sep)) <= SOUNDCLOUD_MAX_TITLE
    THEN <<episode_title, FALSE>>
    ELSE TruncateTo(episode_title, RemainingBudget(filename_parts, episode_title))

\* lines 447-450: with t the pair truncate_episode_title returned
ReplaceTitle(parts, episode_title, t) ==
    IF t[2]
    THEN <<[parts EXCEPT ![IndexOf(parts, episode_title)] = t[1]], TRUE>>
    ELSE <<parts, FALSE>>

\* lines 444-450: the parts list that is joined, and was_truncated
TruncatedParts(parts, episode_title) ==
    IF episode_title # <<>> /\ Contains(parts, episode_title)
    THEN ReplaceTitle(parts, episode_title, truncate_episode_title(parts, episode_title))
    ELSE <<parts, FALSE>>

\* lines 452-455, with fp the pair TruncatedParts gives
FilenameOf(fp) ==
    [filename |-> sanitize_filename(Join(fp[1], Sep)) \o Mp3Ext,
     was_truncated |-> fp[2],
     parts |-> fp[1]]

\* returns [filename, was_truncated], and parts, the list that was joined
generate_filename(show, episode, episode_title, hosts, date) ==
    FilenameOf(TruncatedParts(build_filename_parts(show, episode, episode_title, hosts, date),
                              episode_title))

\* a variant that gives the tag title the text of the filename: the join of
\* the parts generate_filename joins
TagsOfFilename(show, episode, episode_title, hosts, date) ==
    [title |-> Join(generate_filename(show, episode, episode_title, hosts, date).parts, Sep),
     artist |-> hosts,
     album |-> show,
     track_number |-> episode,
     composer |-> date]

\* lines 414-435; the title parts are built as build_filename_parts builds them
prepare_tags(show, episode, episode_title, hosts, date) ==
    [title |-> Join(build_filename_parts(show, episode, episode_title, hosts, date), Sep),
     artist |-> hosts,
     album |-> show,
     track_number |-> episode,
     composer |-> date]

(* ------------------------------------------------------------------ *)
(* MP3TaggerEngine: field validators                                    *)
(* ------------------------------------------------------------------ *)

\* ValidationResult(success, message, value); a value of None is written <<>>
ValidationResult(success, message, value) ==
    [success |-> success, message |-> message, value |-> value, raised |-> FALSE]

\* the function returns no result: exception leaves it
Raises(exception) ==
    [success |-> FALSE, message |-> exception, value |-> <<>>, raised |-> TRUE]

\* the characters of s at the positions kept, every whitespace as a space
SpacesAt(s, kept) ==
    [k \in 1..Cardinality(kept) |->
        IF s[Kth(kept, k)] \in Whitespace THEN " " ELSE s[Kth(kept, k)]]

\* a variant that leaves the runs of whitespace as they are
SpacesKept(s) == s

\* re.sub(r'\s+', ' ', s): the first character of every whitespace run
\* becomes a space, the rest of the run goes
CollapseSpaces(s) ==
    SpacesAt(s, {i \in 1..Len(s) :
                    ~(s[i] \in Whitespace /\ i > 1 /\ s[i - 1] \in Whitespace)})

\* the pieces between the commas, without the whitespace next to a comma
TrimAtCommas(segs) ==
    [i \in 1..Len(segs) |->
        IF Len(segs) = 1 THEN segs[i]
        ELSE IF i = 1 THEN RStrip(segs[i])
        ELSE IF i = Len(segs) THEN LStrip(segs[i])
        ELSE Strip(segs[i])]

\* re.sub(r'\s*,\s*', ', ', s): every comma, with the whitespace on both of
\* its sides, becomes a comma and one space
CommaSpace(s) == Join(TrimAtCommas(Split(s, ",")), <<",", " ">>)

\* the pattern below, over the pieces between the commas of the text
SegmentsMatch(segs) ==
    /\ Len(segs[1]) >= 1
    /\ \A i \in 2..Len(segs) : Len(segs[i]) >= 2 /\ segs[i][1] = " "

\* re.match(r"^[^,]+(, [^,]+)*$", s)
HostsPattern(s) == SegmentsMatch(Split(s, ","))

\* lines 324-327
CleanedHosts(cleaned_hosts) ==
    IF ~HostsPattern(cleaned_hosts)
    THEN ValidationResult(FALSE, "Hosts must be comma-separated with space after comma", <<>>)
    ELSE ValidationResult(TRUE, "", cleaned_hosts)

\* lines 317-327, with stripped = hosts.strip()
StrippedHosts(stripped) ==
    IF stripped = <<>>
    THEN ValidationResult(TRUE, "No hosts provided", <<>>)
    ELSE CleanedHosts(CollapseSpaces(CommaSpace(stripped)))

validate_hosts(hosts) == StrippedHosts(Strip(hosts))

\* U+00B2, superscript two: a digit for str.isdigit(), no decimal for int()
SuperscriptTwo == "U+00B2"

\* str.isdigit() over the characters of the model
IsDigit(s) == Len(s) > 0 /\ \A i \in 1..Len(s) : s[i] \in Digits \cup {SuperscriptTwo}

\* int(s) raises no ValueError, for a text that passed isdigit()
IsDecimal(s) == \A i \in 1..Len(s) : s[i] \in Digits

\* the text without its first zeros zeros
DropZeros(s, zeros) ==
    IF zeros = Len(s) THEN <<"0">> ELSE SubSeq(s, zeros + 1, Len(s))

\* str(int(s)) for a text of decimal digits
StripZeros(s) == DropZeros(s, LeadingRun(s, {"0"}))

\* lines 331-335, with stripped = num.strip()
StrippedNumber(stripped) ==
    IF stripped = <<>>
    THEN ValidationResult(TRUE, "No episode number provided", <<>>)
    ELSE IF ~IsDigit(stripped)
    THEN ValidationResult(FALSE, "Episode number must be numeric", <<>>)
    ELSE IF ~IsDecimal(stripped)
    THEN Raises("ValueError")
    ELSE ValidationResult(TRUE, "", StripZeros(stripped))

validate_episode_number(num) == StrippedNumber(Strip(num))

DigitVal(c) ==
    CASE c = "0" -> 0 [] c = "1" -> 1 [] c = "2" -> 2 [] c = "3" -> 3 [] c = "4" -> 4
      [] c = "5" -> 5 [] c = "6" -> 6 [] c = "7" -> 7 [] c = "8" -> 8 [] c = "9" -> 9

DigitChar(n) ==
    CASE n = 0 -> "0" [] n = 1 -> "1" [] n = 2 -> "2" [] n = 3 -> "3" [] n = 4 -> "4"
      [] n = 5 -> "5" [] n = 6 -> "6" [] n = 7 -> "7" [] n = 8 -> "8" [] n = 9 -> "9"

\* int(s) for a text of decimal digits
NumVal(s) ==
    LET v[i \in 0..Len(s)] == IF i = 0 THEN 0 ELSE 10 * v[i - 1] + DigitVal(s[i])
    IN  v[Len(s)]

\* the decimal numeral of n in d digits
Numeral(n, d) == [i \in 1..d |-> DigitChar((n \div (10 ^ (d - i))) % 10)]

\* str(n) for 0 <= n <= 9999
NumText(n) ==
    Numeral(n, IF n < 10 THEN 1 ELSE IF n < 100 THEN 2 ELSE IF n < 1000 THEN 3 ELSE 4)

\* strftime's %d and %m: two digits
Pad2(n) == Numeral(n, 2)

\* strptime's %d: 3[0-1] | [1-2]\d | 0[1-9] | [1-9]
DayPattern(d) ==
    \/ Len(d) = 2 /\ d[1] = "3" /\ d[2] \in {"0", "1"}
    \/ Len(d) = 2 /\ d[1] \in {"1", "2"} /\ d[2] \in Digits
    \/ Len(d) = 2 /\ d[1] = "0" /\ d[2] \in Digits \ {"0"}
    \/ Len(d) = 1 /\ d[1] \in Digits \ {"0"}

\* strptime's %m: 1[0-2] | 0[1-9] | [1-9]
MonthPattern(m) ==
    \/ Len(m) = 2 /\ m[1] = "1" /\ m[2] \in {"0", "1", "2"}
    \/ Len(m) = 2 /\ m[1] = "0" /\ m[2] \in Digits \ {"0"}
    \/ Len(m) = 1 /\ m[1] \in Digits \ {"0"}

\* strptime's %Y: \d\d\d\d
YearPattern(y) == Len(y) = 4 /\ \A i \in 1..4 : y[i] \in Digits

IsLeap(y) == (y % 4 = 0 /\ y % 100 # 0) \/ y % 400 = 0

DaysInMonth(m, y) ==
    IF m = 2 THEN (IF IsLeap(y) THEN 29 ELSE 28)
    ELSE IF m \in {4, 6, 9, 11} THEN 30 ELSE 31

\* day d of month m of year y is a date of datetime
IsDate(d, m, y) == y >= 1 /\ d <= DaysInMonth(m, y)

\* datetime.strptime(s, "%d.%m.%Y") raises no ValueError, for segs = s.split(".")
SegmentsParse(segs) ==
    /\ Len(segs) = 3
    /\ DayPattern(segs[1])
    /\ MonthPattern(segs[2])
    /\ YearPattern(segs[3])
    /\ IsDate(NumVal(segs[1]), NumVal(segs[2]), NumVal(segs[3]))

\* dt.strftime("%d.%m.%Y"); %Y as glibc prints it, without padding
SegmentsText(segs) ==
    Pad2(NumVal(segs[1])) \o <<".">> \o Pad2(NumVal(segs[2])) \o <<".">>
      \o NumText(NumVal(segs[3]))

\* lines 342-346, with segs = date_str.strip().split(".")
ParsedDate(segs) ==
    IF SegmentsParse(segs)
    THEN ValidationResult(TRUE, "", SegmentsText(segs))
    ELSE ValidationResult(FALSE, "Invalid date format. Use DD.MM.YYYY", <<>>)

\* lines 339-346, with stripped = date_str.strip()
StrippedDate(stripped) ==
    IF stripped = <<>>
    THEN ValidationResult(FALSE, "Broadcast date is required", <<>>)
    ELSE ParsedDate(Split(stripped, "."))

get_broadcast_date(date_str) == StrippedDate(Strip(date_str))

\* the result r with the year of its value in four digits
ZeroPadded(r) ==
    IF r.success
    THEN [r EXCEPT !.value = SubSeq(@, 1, 6) \o Rep("0", 10 - Len(@)) \o SubSeq(@, 7, Len(@))]
    ELSE r

\* what get_broadcast_date can return when r is its result with strftime's
\* %Y unpadded: the C library of the platform pads the year to four digits
\* or does not
DateOutcomes(r) == {r, ZeroPadded(r)}

(* ------------------------------------------------------------------ *)
(* Files, tag containers and cover images                               *)
(* ------------------------------------------------------------------ *)

\* str.lower() over the letters of the file names of the model
Lower(c) == CASE c = "M" -> "m" [] c = "P" -> "p" [] OTHER -> c

LowerText(s) == [i \in 1..Len(s) |-> Lower(s[i])]

\* pathlib's PurePath.suffix of a file name
Suffix(name) ==
    LET i == LastPos(name, ".")
    IN  IF 1 < i /\ i < Len(name) THEN SubSeq(name, i, Len(name)) ELSE <<>>

\* Path.exists(), in the directory dir
Exists(dir, name) == name \in DOMAIN dir

\* the frames of a tag container: a function from frame keys to values; the
\* key of an embedded image is <<"APIC", description>>
NoFrames == <<>>

\* a variant that deletes no frame
FramesKept(frames, keys) == frames

\* lines 490-492: the frames without those of keys
FramesWithout(frames, keys) == [k \in (DOMAIN frames) \ keys |-> frames[k]]

\* the frames of ID3v2.3 that have no place in ID3v2.4: mutagen deletes
\* them when it loads a container
DroppedOnLoad == {"RVAD", "EQUA", "TRDA", "TSIZ"}

\* mutagen's update_to_v24, which ID3(mp3_path) applies to the frames it
\* loads: the year frame TYER becomes the timestamp frame TDRC, the frames
\* without a place in ID3v2.4 are deleted
update_to_v24(frames) ==
    (IF <<"TYER">> \in DOMAIN frames /\ <<"TDRC">> \notin DOMAIN frames
     THEN <<"TDRC">> :> frames[<<"TYER">>]
     ELSE NoFrames)
      @@ [k \in {j \in DOMAIN frames : j[1] \notin DroppedOnLoad \cup {"TYER"}} |->
             frames[k]]

\* line 477: the frames ID3(mp3_path) holds after loading content
Loaded(content) ==
    IF content.version < 4 THEN update_to_v24(content.frames) ELSE content.frames

\* the container write_id3_tags saves: ID3(mp3_path), or ID3() for a file
\* without a header, then the frame updates of lines 482-502
WrittenFrames(content, t, cover) ==
    LET id3 == IF content.hasHeader THEN Loaded(content) ELSE NoFrames
        text == (<<"TIT2">> :> t.title) @@ (<<"TPE1">> :> t.artist)
                  @@ (<<"TALB">> :> t.album) @@ (<<"TRCK">> :> t.track_number)
                  @@ (IF t.composer # <<>> THEN <<"TCOM">> :> t.composer ELSE NoFrames)
        updated == text @@ id3
        pictures == {k \in DOMAIN updated : k[1] = "APIC"}
        cleared == FramesWithout(updated, pictures)
    IN  IF cover.present
        THEN (<<"APIC", "Cover">> :> [mime |-> "image/jpeg", type |-> 3, data |-> cover.data])
               @@ cleared
        ELSE cleared

\* cover_data = None
NoCover == [present |-> FALSE, data |-> "none", width |-> 0, height |-> 0]

Abs(n) == IF n < 0 THEN 0 - n ELSE n

\* math.ceil(a / b)
CeilDiv(a, b) == (a + b - 1) \div b

\* max(n, 1)
AtLeastOne(n) == IF n < 1 THEN 1 ELSE n

\* Pillow's round_aspect for the width of a w x h image that gets the
\* maximal height: of the floor f and the ceiling c of MAX * w / h, the one
\* whose ratio to the height is nearer to w / h, the floor on a tie
RoundWidth(f, c, w, h) ==
    IF Abs(MAX_COVER_SIZE * w - f * h) <= Abs(MAX_COVER_SIZE * w - c * h) THEN f ELSE c

\* the same for the height of an image that gets the maximal width; a floor
\* of 0 is taken
RoundHeight(f, c, w, h) ==
    IF f = 0 THEN 0
    ELSE IF Abs(w * f - MAX_COVER_SIZE * h) * c <= Abs(w * c - MAX_COVER_SIZE * h) * f
    THEN f ELSE c

\* line 405: the size img.thumbnail(MAX_COVER_SIZE) leaves a w x h image
\* with, <<width, height>>
thumbnail(w, h) ==
    IF MAX_COVER_SIZE >= w /\ MAX_COVER_SIZE >= h
    THEN <<w, h>>
    ELSE IF w <= h
    THEN <<AtLeastOne(RoundWidth((MAX_COVER_SIZE * w) \div h,
                                 CeilDiv(MAX_COVER_SIZE * w, h), w, h)),
           MAX_COVER_SIZE>>
    ELSE <<MAX_COVER_SIZE,
           AtLeastOne(RoundHeight((MAX_COVER_SIZE * h) \div w,
                                  CeilDiv(MAX_COVER_SIZE * h, w), w, h))>>

\* lines 404-409: the JPEG bytes of the pixels pixels in the size size
Encoded(pixels, size) ==
    ValidationResult(TRUE, "", [present |-> TRUE, data |-> pixels,
                                width |-> size[1], height |-> size[2]])

\* process_cover_art on the image file img: [opens, mode, transparency,
\* encodes, pixels, width, height]
process_cover_art(img) ==
    IF ~img.opens
    THEN ValidationResult(FALSE, "Cannot open image", NoCover)
    ELSE IF img.mode \in {"RGBA", "LA"} \/ (img.mode = "P" /\ img.transparency)
    THEN ValidationResult(FALSE, "PNG images with transparency are not allowed", NoCover)
    ELSE IF ~img.encodes
    THEN ValidationResult(FALSE, "Error processing image", NoCover)
    ELSE Encoded(img.pixels, thumbnail(img.width, img.height))

\* a variant that takes the source file itself for a collision
CollisionWithSelf(dir, mp3_path, new_filename) ==
    IF ~Exists(dir, mp3_path)
    THEN ValidationResult(FALSE, "MP3 file does not exist", <<>>)
    ELSE IF LowerText(Suffix(mp3_path)) # Mp3Ext
    THEN ValidationResult(FALSE, "Selected file is not an MP3", <<>>)
    ELSE IF Exists(dir, new_filename)
    THEN ValidationResult(FALSE, "File with target name already exists", <<>>)
    ELSE ValidationResult(TRUE, "", <<>>)

\* a variant that does not look at the target path
TargetUnchecked(dir, mp3_path, new_filename) ==
    IF ~Exists(dir, mp3_path)
    THEN ValidationResult(FALSE, "MP3 file does not exist", <<>>)
    ELSE IF LowerText(Suffix(mp3_path)) # Mp3Ext
    THEN ValidationResult(FALSE, "Selected file is not an MP3", <<>>)
    ELSE ValidationResult(TRUE, "", <<>>)

\* lines 458-470, in the directory dir of mp3_path
validate_operation(dir, mp3_path, new_filename) ==
    IF ~Exists(dir, mp3_path)
    THEN ValidationResult(FALSE, "MP3 file does not exist", <<>>)
    ELSE IF LowerText(Suffix(mp3_path)) # Mp3Ext
    THEN ValidationResult(FALSE, "Selected file is not an MP3", <<>>)
    ELSE IF Exists(dir, new_filename) /\ new_filename # mp3_path
    THEN ValidationResult(FALSE, "File with target name already exists", <<>>)
    ELSE ValidationResult(TRUE, "", <<>>)

\* a variant that leaves the file under its old name as well
CopiedTo(dir, old_path, new_filename) == (new_filename :> dir[old_path]) @@ dir

\* the directory after old_path.rename(new_path) has succeeded
Renamed(dir, old_path, new_filename) ==
    (new_filename :> dir[old_path])
      @@ [n \in (DOMAIN dir) \ {old_path} |-> dir[n]]

\* the directory after id3.save(mp3_path) has succeeded; save writes ID3v2.4
Saved(dir, mp3_path, t, cover) ==
    [dir EXCEPT ![mp3_path] =
        [hasHeader |-> TRUE, version |-> 4,
         frames |-> WrittenFrames(dir[mp3_path], t, cover)]]

(* ------------------------------------------------------------------ *)
(* MP3TaggerGUI.validate_all_inputs                                     *)
(* ------------------------------------------------------------------ *)

\* a different order, the show checked before the hosts
ShowBeforeHosts == <<"file", "show", "hosts", "episode", "date", "cover">>

\* the order in which validate_all_inputs checks the fields
ValidationOrder == <<"file", "hosts", "show", "episode", "date", "cover">>

Passed == ValidationResult(TRUE, "", <<>>)

\* line 1186
FileCheck(values, dir) ==
    IF ~Exists(dir, values.file) \/ LowerText(Suffix(values.file)) # Mp3Ext
    THEN ValidationResult(FALSE, "Please select a valid MP3 file", <<>>)
    ELSE Passed

\* lines 1197-1200, with show = values["show"].strip()
ShowCheck(show) ==
    IF show = <<>>
    THEN ValidationResult(FALSE, "Show Name cannot be empty.", <<>>)
    ELSE ValidationResult(TRUE, "", show)

\* lines 1218-1219, with date_result = get_broadcast_date(values["date"])
DateCheck(date_result) ==
    IF ~date_result.success
    THEN ValidationResult(FALSE, "Broadcast date error", <<>>)
    ELSE date_result

\* lines 1222-1226
CoverCheck(values, imgs) ==
    IF values.cover # "" THEN process_cover_art(imgs[values.cover]) ELSE Passed

\* what the check of each field gives: its result when it passes, what
\* validate_all_inputs returns for it when it fails
FieldChecks(values, dir, imgs) ==
    [file |-> FileCheck(values, dir),
     hosts |-> validate_hosts(values.hosts),
     show |-> ShowCheck(Strip(values.show)),
     episode |-> validate_episode_number(values.episode),
     date |-> DateCheck(get_broadcast_date(values.date)),
     cover |-> CoverCheck(values, imgs)]

\* the position in the order of the first field whose check fails, or of
\* the last field when none does: validate_all_inputs returns there
LastEvaluated(checks) ==
    IF \A i \in 1..Len(ValidationOrder) : checks[ValidationOrder[i]].success
    THEN Len(ValidationOrder)
    ELSE CHOOSE i \in 1..Len(ValidationOrder) :
            /\ ~checks[ValidationOrder[i]].success
            /\ \A j \in 1..(i - 1) : checks[ValidationOrder[j]].success

\* the fields validate_all_inputs evaluates
Evaluated(checks) == SubSeq(ValidationOrder, 1, LastEvaluated(checks))

\* lines 1228-1237: the dictionary returned on success, with the path of
\* line 1307
ValidData(values, checks) ==
    [hosts |-> checks.hosts.value,
     show |-> checks.show.value,
     episode |-> checks.episode.value,
     date |-> checks.date.value,
     episode_title |-> Strip(values.episode_title),
     cover_path |-> values.cover,
     hosts_warning |-> checks.hosts.message,
     episode_warning |-> checks.episode.message,
     mp3_path |-> values.file]

NoData ==
    [hosts |-> <<>>, show |-> <<>>, episode |-> <<>>, date |-> <<>>,
     episode_title |-> <<>>, cover_path |-> "", hosts_warning |-> "",
     episode_warning |-> "", mp3_path |-> <<>>]

\* lines 1209-1211: the episode entry is rewritten with the cleaned number
\* when the episode check was reached, passed and gave a value
EpisodeEntry(values, checks) ==
    IF /\ Contains(Evaluated(checks), "episode")
       /\ checks.episode.success
       /\ checks.episode.value # <<>>
    THEN checks.episode.value
    ELSE values.episode

\* what validate_all_inputs does, given the checks of the fields:
\* [success, message, value], whether an exception of a check left it, the
\* fields it evaluated and the episode entry it leaves
ValidationOf(values, checks) ==
    [success |-> checks[ValidationOrder[LastEvaluated(checks)]].success,
     message |-> IF checks[ValidationOrder[LastEvaluated(checks)]].success THEN ""
                 ELSE checks[ValidationOrder[LastEvaluated(checks)]].message,
     value |-> IF checks[ValidationOrder[LastEvaluated(checks)]].success
               THEN ValidData(values, checks) ELSE NoData,
     raised |-> checks[ValidationOrder[LastEvaluated(checks)]].raised,
     evaluated |-> Evaluated(checks),
     episode_entry |-> EpisodeEntry(values, checks)]

validate_all_inputs(values, dir, imgs) ==
    ValidationOf(values, FieldChecks(values, dir, imgs))

(* ------------------------------------------------------------------ *)
(* State                                                                *)
(* ------------------------------------------------------------------ *)

VARIABLES
    fs,          \* the directory of the audio file: name -> [hasHeader, version,
                 \* frames], version the minor version of the ID3v2 container
    images,      \* the image files: path -> [opens, mode, transparency, encodes,
                 \* pixels, width, height]
    form,        \* the entries of the window and the selected paths
    pc,          \* where process_operation stands
    mode,        \* "preview" or "save": preview_mode of the running operation
    valid_data,  \* validation_result.value, with mp3_path
    names,       \* generate_filename's result
    tags,        \* prepare_tags' result
    cover_data,  \* the bytes handed to write_id3_tags
    outcome,     \* how the operation ended
    report,      \* what the operation shows: [success, message, new_filepath,
                 \* cover_embedded, warnings]
    hist,        \* the calls of the running operation, in order: [call, result]
    evaluated,   \* the fields validate_all_inputs evaluated, in order
    fs0,         \* the directory when the running operation began
    runs,        \* operations started so far
    args,        \* arguments of a direct call of an engine function
    ret,         \* result of that call
    ops,         \* save operations served side by side: operation -> [pc,
                 \* mp3_path, new_filename, tags, outcome, seen]
    serialized,  \* whether an operation starts only when no other is running
    app,         \* "closed" or "open": whether the application runs
    autoload_enabled,        \* self.autoload_enabled; when closed, its last value
    autoload_template_path,  \* self.autoload_template_path, "" for None
    autoload_json,           \* the file autoload.json: [state, enabled, template_path]
    template_files,          \* the template files on disk
    autoloaded,  \* the template auto_load_template loaded at the last start
    starts       \* starts of the application so far

\* the autoload state of the application and of its configuration directory
autoloadVars == <<app, autoload_enabled, autoload_template_path, autoload_json,
                  template_files, autoloaded, starts>>

\* the state outside the window's pipeline and the direct calls
otherVars == <<ops, serialized, autoloadVars>>

vars == <<fs, images, form, pc, mode, valid_data, names, tags, cover_data,
          outcome, report, hist, evaluated, fs0, runs, args, ret, otherVars>>

(* ------------------------------------------------------------------ *)
(* Sample inputs                                                        *)
(* ------------------------------------------------------------------ *)

MyShow == <<"M", "y", " ", "S", "h", "o", "w">>
HostsAB == <<"A", ",", " ", "B">>
HostsBad == <<"A", ",", ",", "B">>
Date2024 == <<"0", "1", ".", "0", "1", ".", "2", "0", "2", "4">>
DateFeb31 == <<"3", "1", ".", "0", "2", ".", "2", "0", "2", "4">>
LongTitle == Rep("t", LongTitleLen)
SourceName == <<"a", ".", "M", "P", "3">>
TextName == <<"n", ".", "t", "x", "t">>
GoneName == <<"g", ".", "m", "p", "3">>
CoverPath == "cover.png"

\* an audio file that already carries a tag container, with a frame the
\* program never sets and an embedded image
TaggedAudio ==
    [hasHeader |-> TRUE, version |-> 4,
     frames |-> (<<"TIT2">> :> <<"o", "l", "d">>) @@ (<<"TXXX", "note">> :> <<"k">>)
                  @@ (<<"APIC", "Old">> :> [mime |-> "image/png", type |-> 3, data |-> "old"])]

\* an audio file without an ID3 header
BareAudio == [hasHeader |-> FALSE, version |-> 0, frames |-> NoFrames]

\* an audio file with an ID3v2.3 container, as most encoders write it, with
\* a year and a size frame
LegacyAudio ==
    [hasHeader |-> TRUE, version |-> 3,
     frames |-> (<<"TIT2">> :> <<"o", "l", "d">>) @@ (<<"TXXX", "note">> :> <<"k">>)
                  @@ (<<"TYER">> :> <<"2", "0", "2", "0">>) @@ (<<"TSIZ">> :> <<"9">>)]

OtherFile == [hasHeader |-> FALSE, version |-> 0, frames |-> NoFrames]

GoodImage ==
    [opens |-> TRUE, mode |-> "RGB", transparency |-> FALSE, encodes |-> TRUE,
     pixels |-> "good", width |-> 500, height |-> 500]
AlphaImage ==
    [opens |-> TRUE, mode |-> "RGBA", transparency |-> FALSE, encodes |-> TRUE,
     pixels |-> "alpha", width |-> 500, height |-> 500]
BrokenImage ==
    [opens |-> TRUE, mode |-> "RGB", transparency |-> FALSE, encodes |-> FALSE,
     pixels |-> "broken", width |-> 500, height |-> 500]
NoImage ==
    [opens |-> FALSE, mode |-> "RGB", transparency |-> FALSE, encodes |-> FALSE,
     pixels |-> "none", width |-> 500, height |-> 500]

ImageKinds == {GoodImage, AlphaImage, BrokenImage, NoImage}

\* the name a save of the form's values would give the file
NameFor(d) ==
    generate_filename(d.show, d.episode, d.episode_title, d.hosts, d.date).filename

ExpectedName(values) ==
    NameFor(ValidData(values, FieldChecks(values, <<>>, [p \in {CoverPath} |-> GoodImage])))

NoNames == [filename |-> <<>>, was_truncated |-> FALSE, parts |-> <<>>]
NoTags == [title |-> <<>>, artist |-> <<>>, album |-> <<>>, track_number |-> <<>>,
           composer |-> <<>>]
NoReport == [success |-> FALSE, message |-> "", new_filepath |-> <<>>,
             cover_embedded |-> FALSE, warnings |-> {}]

Called(call, result) == [call |-> call, result |-> result]

ResultOf(success) == IF success THEN "ok" ELSE "fail"

\* lines 1262-1269: the warnings of the preview report
PreviewWarnings(d, was_truncated) ==
    (IF d.hosts_warning # "" THEN {"hosts"} ELSE {})
      \cup (IF d.episode_warning # "" THEN {"episode"} ELSE {})
      \cup (IF was_truncated THEN {"truncated"} ELSE {})

\* lines 1276-1288: generate_save_report, which writes no warning
generate_save_report(success, message, new_filepath, cover_embedded) ==
    [success |-> success, message |-> message,
     new_filepath |-> IF success THEN new_filepath ELSE <<>>,
     cover_embedded |-> success /\ cover_embedded,
     warnings |-> {}]
\* no operation is served beside the window's
NoOps == <<>>

\* autoload.json does not exist
NoPreference == [state |-> "absent", enabled |-> FALSE, template_path |-> ""]

\* the template files a user may select
TemplateSamples == {"show.json", "news.json"}

\* the application has never run on this machine
AutoloadIdle ==
    /\ app = "closed"
    /\ autoload_enabled = FALSE
    /\ autoload_template_path = ""
    /\ autoload_json = NoPreference
    /\ template_files = TemplateSamples
    /\ autoloaded = ""
    /\ starts = 0

OthersIdle ==
    /\ ops = NoOps
    /\ serialized = TRUE
    /\ AutoloadIdle

NoArgs == [show |-> <<>>, episode |-> <<>>, episode_title |-> <<>>, hosts |-> <<>>,
           date |-> <<>>]
NoRet == [op |-> "none", filename |-> <<>>, was_truncated |-> FALSE, parts |-> <<>>]

\* the forms of the operations: every field in a valid and an invalid
\* version, the optional ones also empty
FormSamples ==
    [file : {SourceName, TextName, GoneName},
     hosts : {<<>>, HostsAB, HostsBad},
     show : {<<>>, MyShow},
     episode : {<<>>, <<"0", "3">>, <<"x">>},
     episode_title : {<<"M", "i", "x">>},
     date : {Date2024, DateFeb31},
     cover : {"", CoverPath}]

\* the directory holds the selected audio file, a text file and, for
\* layout "taken", another file under the name the save would give; for
\* layout "retag" the selected file already carries that name
Layouts == {"plain", "taken", "retag"}

Init ==
    /\ \E f \in FormSamples, layout \in Layouts :
         LET target == ExpectedName(f)
             retag == layout = "retag" /\ f.file = SourceName
         IN  /\ form = IF retag THEN [f EXCEPT !.file = target] ELSE f
             /\ fs = (IF retag THEN target :> BareAudio
                      ELSE IF layout = "taken" THEN target :> OtherFile
                      ELSE <<>>)
                     @@ (SourceName :> TaggedAudio) @@ (TextName :> OtherFile)
             /\ images \in [{CoverPath} ->
                              IF f.cover = "" THEN {GoodImage} ELSE ImageKinds]
    /\ pc = "idle"
    /\ mode = "preview"
    /\ valid_data = NoData
    /\ names = NoNames
    /\ tags = NoTags
    /\ cover_data = NoCover
    /\ outcome = "none"
    /\ report = NoReport
    /\ hist = <<>>
    /\ evaluated = <<>>
    /\ fs0 = fs
    /\ runs = 0
    /\ OthersIdle
    /\ args = NoArgs
    /\ ret = NoRet

(* ------------------------------------------------------------------ *)
(* MP3TaggerGUI.process_operation, step by step                         *)
(* ------------------------------------------------------------------ *)

\* variants of the steps below, each a pipeline that goes on where
\* process_operation stops

\* goes on to the cover whatever validate_operation said
CoverRegardless(success) == "cover"

\* goes on to the tag write whatever process_cover_art said
WriteRegardless(success) == "write"

\* goes on to the rename after a failure result of write_id3_tags
RenameRegardless(result) == IF result = "raised" THEN "crashed" ELSE "rename"

\* reports success whatever rename_mp3_file said
SuccessRegardless(rename_success) == "success"

\* lines 1301-1319: after validate_all_inputs
AfterValidation(success, preview_mode) ==
    IF ~success THEN "done" ELSE IF preview_mode THEN "generate" ELSE "confirm"

\* lines 1312-1319: after the confirmation dialogs
AfterConfirmation(accepted) == IF accepted THEN "generate" ELSE "done"

\* lines 1344-1347: after validate_operation
AfterValidateOperation(success) == IF success THEN "cover" ELSE "done"

\* lines 1350-1357: after process_cover_art
AfterCover(success) == IF success THEN "write" ELSE "done"

\* lines 1360-1365: after write_id3_tags returned a result ("ok", "error")
\* or let an exception through ("raised")
AfterTagWrite(result) ==
    CASE result = "ok" -> "rename"
      [] result = "error" -> "done"
      [] result = "raised" -> "crashed"

\* lines 1366-1372: the outcome after rename_mp3_file
SaveOutcome(rename_success) == IF rename_success THEN "success" ELSE "failed"

\* what write_id3_tags can do on mp3_path: save the container ("ok"), fail
\* with a mutagen.id3 error that line 506 catches ("error"), or fail with
\* an exception that line 506 does not name ("raised"), as mutagen raises for
\* a file it cannot open
TagWriteResults(dir, mp3_path) ==
    IF Exists(dir, mp3_path) THEN {"ok", "error", "raised"} ELSE {"raised"}

\* lines 1292-1307, with r what validate_all_inputs did
Validated(preview_mode, r) ==
    /\ hist' = <<Called("validate_all_inputs",
                        IF r.raised THEN "raised" ELSE ResultOf(r.success))>>
    /\ evaluated' = r.evaluated
    /\ form' = [form EXCEPT !.episode = r.episode_entry]
    /\ pc' = IF r.raised THEN "crashed" ELSE AfterValidation(r.success, preview_mode)
    /\ valid_data' = r.value
    /\ outcome' = IF r.raised THEN "exception"
                  ELSE IF r.success THEN "none" ELSE "invalid"
    /\ report' = IF r.success \/ r.raised THEN NoReport
                 ELSE [NoReport EXCEPT !.message = r.message]

TagWriteMessage == "Error writing ID3 tags"

RenameMessage == "Error renaming file"

\* preview() and save(): the click, get_input_values and validate_all_inputs
StartOperation(preview_mode) ==
    /\ pc \in {"idle", "done", "crashed"}
    /\ runs < MaxRuns
    /\ runs' = runs + 1
    /\ mode' = IF preview_mode THEN "preview" ELSE "save"
    /\ fs0' = fs
    /\ Validated(preview_mode, validate_all_inputs(form, fs, images))
    /\ names' = NoNames
    /\ tags' = NoTags
    /\ cover_data' = NoCover
    /\ UNCHANGED <<fs, images, args, ret, otherVars>>

\* lines 1310-1319: ask_for_confirmation for each empty optional field
AskConfirmations ==
    /\ pc = "confirm"
    /\ \E hosts_yes \in BOOLEAN, episode_yes \in BOOLEAN :
         LET accepted == /\ (valid_data.hosts_warning # "" => hosts_yes)
                         /\ (valid_data.episode_warning # "" => episode_yes)
         IN  /\ pc' = AfterConfirmation(accepted)
             /\ outcome' = IF accepted THEN outcome ELSE "cancelled"
    /\ UNCHANGED <<evaluated, fs, images, form, mode, valid_data, names, tags, cover_data,
                   report, hist, fs0, runs, args, ret, otherVars>>

\* a variant that takes the save branch in a preview as well
ComposedAsSave(n, t, v) ==
    /\ names' = n
    /\ tags' = t
    /\ pc' = AfterValidateOperation(v.success)
    /\ outcome' = IF v.success THEN outcome ELSE "failed"
    /\ report' = IF v.success THEN report
                 ELSE [NoReport EXCEPT !.message = v.message]
    /\ hist' = Append(hist, Called("validate_operation", ResultOf(v.success)))

\* lines 1334-1346, with n and t the composed names and tags and v the
\* result of validate_operation
Composed(n, t, v) ==
    /\ names' = n
    /\ tags' = t
    /\ IF mode = "preview"
       THEN /\ pc' = "done"
            /\ outcome' = "preview"
            /\ report' = [success |-> TRUE, message |-> "preview",
                          new_filepath |-> n.filename,
                          cover_embedded |-> (valid_data.cover_path # ""),
                          warnings |-> PreviewWarnings(valid_data, n.was_truncated)]
            /\ hist' = hist
       ELSE /\ pc' = AfterValidateOperation(v.success)
            /\ outcome' = IF v.success THEN outcome ELSE "failed"
            /\ report' = IF v.success THEN report
                         ELSE [NoReport EXCEPT !.message = v.message]
            /\ hist' = Append(hist, Called("validate_operation", ResultOf(v.success)))

\* lines 1321-1346: generate_filename, prepare_tags, then the preview report
\* or validate_operation
GenerateNames ==
    /\ pc = "generate"
    /\ Composed(generate_filename(valid_data.show, valid_data.episode,
                                  valid_data.episode_title, valid_data.hosts,
                                  valid_data.date),
                prepare_tags(valid_data.show, valid_data.episode,
                             valid_data.episode_title, valid_data.hosts,
                             valid_data.date),
                validate_operation(fs, valid_data.mp3_path, NameFor(valid_data)))
    /\ UNCHANGED <<evaluated, fs, images, form, mode, valid_data, cover_data, fs0, runs, args, ret,
                   otherVars>>

\* lines 1351-1357, with r the result of process_cover_art
CoverProcessed(r) ==
    /\ cover_data' = r.value
    /\ pc' = AfterCover(r.success)
    /\ outcome' = IF r.success THEN outcome ELSE "failed"
    /\ report' = IF r.success THEN report
                 ELSE [NoReport EXCEPT !.message = r.message]
    /\ hist' = Append(hist, Called("process_cover_art", ResultOf(r.success)))

\* lines 1348-1357: process_cover_art, in a save only
ProcessCover ==
    /\ pc = "cover"
    /\ IF valid_data.cover_path # ""
       THEN CoverProcessed(process_cover_art(images[valid_data.cover_path]))
       ELSE /\ cover_data' = NoCover
            /\ pc' = AfterCover(TRUE)
            /\ UNCHANGED <<outcome, report, hist>>
    /\ UNCHANGED <<evaluated, fs, images, form, mode, valid_data, names, tags, fs0, runs, args, ret,
                   otherVars>>

\* lines 1359-1362: write_id3_tags on the original path
WriteTags ==
    /\ pc = "write"
    /\ \E result \in TagWriteResults(fs, valid_data.mp3_path), partial \in BOOLEAN :
         /\ (partial => result = "error")
         /\ pc' = AfterTagWrite(result)
         /\ hist' = Append(hist, Called("write_id3_tags", result))
         \* a save that fails half-way may leave the new container behind
         /\ fs' = IF result = "ok" \/ partial
                  THEN Saved(fs, valid_data.mp3_path, tags, cover_data)
                  ELSE fs
         /\ outcome' = CASE result = "ok" -> outcome
                         [] result = "error" -> "failed"
                         [] result = "raised" -> "exception"
         /\ report' = IF result = "error"
                      THEN [NoReport EXCEPT !.message = TagWriteMessage]
                      ELSE report
    /\ UNCHANGED <<evaluated, images, form, mode, valid_data, names, tags, cover_data, fs0, runs,
                   args, ret, otherVars>>

\* lines 1364-1372: rename_mp3_file and the save report
RenameFile ==
    /\ pc = "rename"
    /\ \E success \in BOOLEAN :
         /\ (success => Exists(fs, valid_data.mp3_path))
         /\ pc' = "done"
         /\ hist' = Append(hist, Called("rename_mp3_file", ResultOf(success)))
         /\ fs' = IF success THEN Renamed(fs, valid_data.mp3_path, names.filename) ELSE fs
         /\ outcome' = SaveOutcome(success)
         /\ report' = generate_save_report(SaveOutcome(success) = "success",
                                            IF success THEN "File tagged successfully"
                                            ELSE RenameMessage,
                                            names.filename, cover_data.present)
    /\ UNCHANGED <<evaluated, images, form, mode, valid_data, names, tags, cover_data, fs0, runs,
                   args, ret, otherVars>>

\* browse_file: the user selects an entry of the directory
BrowseFile ==
    /\ pc \in {"idle", "done", "crashed"}
    /\ runs < MaxRuns
    /\ \E name \in DOMAIN fs :
         /\ name # form.file
         /\ LowerText(Suffix(name)) = Mp3Ext
         /\ form' = [form EXCEPT !.file = name]
    /\ UNCHANGED <<evaluated, fs, images, pc, mode, valid_data, names, tags, cover_data, outcome,
                   report, hist, fs0, runs, args, ret, otherVars>>

\* the image file is replaced on disk while a dialog of the save is open
CoverFileChanges ==
    /\ pc = "confirm"
    /\ valid_data.cover_path # ""
    /\ \E img \in ImageKinds :
         /\ img # images[valid_data.cover_path]
         /\ images' = [images EXCEPT ![valid_data.cover_path] = img]
    /\ UNCHANGED <<evaluated, fs, form, pc, mode, valid_data, names, tags, cover_data, outcome,
                   report, hist, fs0, runs, args, ret, otherVars>>

Next ==
    \/ StartOperation(TRUE)
    \/ StartOperation(FALSE)
    \/ AskConfirmations
    \/ GenerateNames
    \/ ProcessCover
    \/ WriteTags
    \/ RenameFile
    \/ BrowseFile
    \/ CoverFileChanges

Spec == Init /\ [][Next]_vars

(* ------------------------------------------------------------------ *)
(* Direct calls of the composition functions                            *)
(* ------------------------------------------------------------------ *)

DupText == Rep("x", DupLen)
LongShow == Rep("s", LongShowLen)

\* an episode text with a character no filename may hold, that ends in a
\* period after a space
DottedEpisode == <<"/", " ", ".">>

\* arguments of generate_filename: short and long texts, every optional
\* field also empty, and one text in more than one field
ArgSamples ==
    [show : {MyShow, DupText, LongShow},
     episode : {<<>>, <<"3">>, DottedEpisode},
     episode_title : {<<>>, <<"3">>, DupText, LongTitle},
     hosts : {<<>>, HostsAB, DupText},
     date : {<<>>, Date2024}]

InitPure ==
    /\ args \in ArgSamples
    /\ ret = NoRet
    /\ fs = (SourceName :> TaggedAudio)
    /\ images = [p \in {CoverPath} |-> GoodImage]
    /\ form = [file |-> SourceName, hosts |-> <<>>, show |-> <<>>, episode |-> <<>>,
               episode_title |-> <<>>, date |-> <<>>, cover |-> ""]
    /\ pc = "idle"
    /\ mode = "preview"
    /\ valid_data = NoData
    /\ names = NoNames
    /\ tags = NoTags
    /\ cover_data = NoCover
    /\ outcome = "none"
    /\ report = NoReport
    /\ hist = <<>>
    /\ evaluated = <<>>
    /\ fs0 = fs
    /\ runs = 0
    /\ OthersIdle

\* with n = generate_filename(show, episode, episode_title, hosts, date)
Returned(n) ==
    ret' = [op |-> "generate_filename", filename |-> n.filename,
            was_truncated |-> n.was_truncated, parts |-> n.parts]

CallGenerateFilename ==
    /\ ret.op = "none"
    /\ Returned(generate_filename(args.show, args.episode, args.episode_title,
                                  args.hosts, args.date))
    /\ UNCHANGED <<fs, images, form, pc, mode, valid_data, names, tags, cover_data,
                   outcome, report, hist, evaluated, fs0, runs, args, otherVars>>

\* a direct call of prepare_tags on the same arguments
CallPrepareTags ==
    /\ ret.op = "none"
    /\ ret' = [op |-> "prepare_tags",
               tags |-> prepare_tags(args.show, args.episode, args.episode_title,
                                     args.hosts, args.date)]
    /\ UNCHANGED <<fs, images, form, pc, mode, valid_data, names, tags, cover_data,
                   outcome, report, hist, evaluated, fs0, runs, args, otherVars>>

NextPure ==
    \/ CallGenerateFilename
    \/ CallPrepareTags

SpecPure == InitPure /\ [][NextPure]_vars

(* ------------------------------------------------------------------ *)
(* Direct calls of the functions of one text                            *)
(* ------------------------------------------------------------------ *)

\* the texts of at most n characters of alphabet
TextsOver(alphabet, n) == UNION {[1..k -> alphabet] : k \in 0..n}

\* names with spaces, periods and a forbidden character
NameTexts == TextsOver({"a", " ", ".", "/"}, MaxTextLen)

\* dates in and out of the calendar, padded and not, and blank texts
DateTexts ==
    {d \o <<".">> \o m \o <<".">> \o y :
        d \in {<<"1">>, <<"0", "1">>, <<"2", "8">>, <<"2", "9">>, <<"3", "0">>,
               <<"3", "1">>, <<"3", "2">>, <<"0", "0">>},
        m \in {<<"1">>, <<"0", "2">>, <<"0", "4">>, <<"1", "2">>, <<"1", "3">>, <<"0", "0">>},
        y \in {<<"2", "0", "2", "3">>, <<"2", "0", "2", "4">>, <<"1", "9", "0", "0">>,
               <<"2", "0", "0", "0">>, <<"0", "9", "9", "9">>, <<"0", "0", "0", "0">>,
               <<"2", "4">>}}
      \cup {<<" ", " ">>, <<" ">> \o Date2024 \o <<" ">>, <<"0", "1", ".", "0", "1">>}

\* lists of names with commas, spaces and tabs, and the list "DJ A,DJ B"
HostTexts ==
    TextsOver({"A", ",", " ", "\t"}, MaxTextLen)
      \cup {<<"D", "J", " ", "A", ",", "D", "J", " ", "B">>}

\* numbers with leading zeros, spaces, a letter and a superscript digit
NumberTexts == TextsOver({"0", "7", " ", "x", SuperscriptTwo}, MaxTextLen)

TextSamples == NameTexts \cup DateTexts \cup HostTexts \cup NumberTexts

\* the window and the directory before any operation
Idle ==
    /\ form = [file |-> SourceName, hosts |-> <<>>, show |-> <<>>, episode |-> <<>>,
               episode_title |-> <<>>, date |-> <<>>, cover |-> ""]
    /\ pc = "idle"
    /\ mode = "preview"
    /\ valid_data = NoData
    /\ names = NoNames
    /\ tags = NoTags
    /\ cover_data = NoCover
    /\ outcome = "none"
    /\ report = NoReport
    /\ hist = <<>>
    /\ evaluated = <<>>
    /\ fs0 = fs
    /\ runs = 0

InitText ==
    /\ OthersIdle
    /\ args \in [text : TextSamples]
    /\ ret = NoRet
    /\ fs = (SourceName :> TaggedAudio)
    /\ images = [p \in {CoverPath} |-> GoodImage]
    /\ Idle

CallSanitizeFilename ==
    /\ ret.op = "none"
    /\ ret' = [op |-> "sanitize_filename", value |-> sanitize_filename(args.text)]
    /\ UNCHANGED <<fs, images, form, pc, mode, valid_data, names, tags, cover_data,
                   outcome, report, hist, evaluated, fs0, runs, args, otherVars>>

CallGetBroadcastDate ==
    /\ ret.op = "none"
    /\ \E r \in DateOutcomes(get_broadcast_date(args.text)) :
         ret' = [op |-> "get_broadcast_date", result |-> r]
    /\ UNCHANGED <<fs, images, form, pc, mode, valid_data, names, tags, cover_data,
                   outcome, report, hist, evaluated, fs0, runs, args, otherVars>>

CallValidateHosts ==
    /\ ret.op = "none"
    /\ ret' = [op |-> "validate_hosts", result |-> validate_hosts(args.text)]
    /\ UNCHANGED <<fs, images, form, pc, mode, valid_data, names, tags, cover_data,
                   outcome, report, hist, evaluated, fs0, runs, args, otherVars>>

CallValidateEpisodeNumber ==
    /\ ret.op = "none"
    /\ ret' = [op |-> "validate_episode_number",
               result |-> validate_episode_number(args.text)]
    /\ UNCHANGED <<fs, images, form, pc, mode, valid_data, names, tags, cover_data,
                   outcome, report, hist, evaluated, fs0, runs, args, otherVars>>

NextText ==
    \/ CallSanitizeFilename
    \/ CallValidateEpisodeNumber
    \/ CallValidateHosts
    \/ CallGetBroadcastDate

SpecText == InitText /\ [][NextText]_vars

(* ------------------------------------------------------------------ *)
(* Direct calls of the functions that read or write files               *)
(* ------------------------------------------------------------------ *)

\* tags with every field set, and tags with the optional fields empty
TagSamples ==
    {[title |-> <<"T">>, artist |-> <<"A">>, album |-> <<"S">>,
      track_number |-> <<"3">>, composer |-> Date2024],
     [title |-> <<"U">>, artist |-> <<>>, album |-> <<"S">>,
      track_number |-> <<>>, composer |-> <<>>]}

\* no cover bytes, and the bytes of two images
CoverSamples ==
    {NoCover,
     [present |-> TRUE, data |-> "jpegA", width |-> 500, height |-> 500],
     [present |-> TRUE, data |-> "jpegB", width |-> 500, height |-> 500]}

\* the modes Image.open gives an image: without alpha, with an alpha channel
\* (RGBA, LA, PA), with a palette
ImageModes == {"RGB", "L", "P", "RGBA", "LA", "PA"}

\* sides of images, below, at and above the maximal side
ImageSides == {1, 500, 1400, 1401, 2000, 3000}

ImageSamples ==
    [opens : {TRUE}, mode : ImageModes, transparency : BOOLEAN, encodes : {TRUE},
     pixels : {"pixels"}, width : ImageSides, height : ImageSides]
      \cup {BrokenImage, NoImage}

TargetName == <<"b", ".", "m", "p", "3">>
FreeName == <<"c", ".", "m", "p", "3">>

\* the audio file, with or without a tag container, alone or next to a text
\* file and another audio file
FileLayouts ==
    {audio @@ others :
        audio \in {SourceName :> TaggedAudio, SourceName :> BareAudio,
                   SourceName :> LegacyAudio},
        others \in {TextName :> OtherFile,
                    (TextName :> OtherFile) @@ (TargetName :> BareAudio)}}

InitFiles ==
    /\ OthersIdle
    /\ fs \in FileLayouts
    /\ images = [p \in {CoverPath} |-> GoodImage]
    /\ args = NoArgs
    /\ ret = NoRet
    /\ Idle

\* a direct call of write_id3_tags; the file at GoneName cannot be opened
CallWriteTags ==
    /\ ret.op \in {"none", "write_id3_tags"}
    /\ Len(hist) < MaxCalls
    /\ \E mp3_path \in {SourceName, GoneName}, t \in TagSamples, cover \in CoverSamples :
         \E result \in TagWriteResults(fs, mp3_path), partial \in BOOLEAN :
            /\ (partial => result = "error")
            /\ fs' = IF result = "ok" \/ partial
                     THEN Saved(fs, mp3_path, t, cover)
                     ELSE fs
            /\ hist' = Append(hist, Called("write_id3_tags", result))
            /\ args' = [mp3_path |-> mp3_path, tags |-> t, cover_data |-> cover]
            /\ ret' = [op |-> "write_id3_tags", result |-> result]
    /\ UNCHANGED <<images, form, pc, mode, valid_data, names, tags, cover_data,
                   outcome, report, evaluated, fs0, runs, otherVars>>

\* a direct call of validate_operation, on the directory as it stands
CallValidateOperation ==
    /\ ret.op = "none"
    /\ \E mp3_path \in {SourceName, TargetName, TextName, GoneName},
          new_filename \in {SourceName, TargetName, FreeName} :
         /\ args' = [mp3_path |-> mp3_path, new_filename |-> new_filename]
         /\ ret' = [op |-> "validate_operation",
                    result |-> validate_operation(fs, mp3_path, new_filename)]
    /\ UNCHANGED <<fs, images, form, pc, mode, valid_data, names, tags, cover_data,
                   outcome, report, hist, evaluated, fs0, runs, otherVars>>

\* a direct call of process_cover_art on an image file
CallProcessCoverArt ==
    /\ ret.op = "none"
    /\ \E img \in ImageSamples :
         /\ images' = [images EXCEPT ![CoverPath] = img]
         /\ args' = [cover_path |-> CoverPath]
         /\ ret' = [op |-> "process_cover_art", result |-> process_cover_art(img)]
    /\ UNCHANGED <<fs, form, pc, mode, valid_data, names, tags, cover_data,
                   outcome, report, hist, evaluated, fs0, runs, otherVars>>

NextFiles ==
    \/ CallProcessCoverArt
    \/ CallWriteTags
    \/ CallValidateOperation

SpecFiles == InitFiles /\ [][NextFiles]_vars

(* ------------------------------------------------------------------ *)
(* Save operations on one audio file, served side by side               *)
(* ------------------------------------------------------------------ *)

\* the names of the operations
Ops == {"first", "second"}

\* the validated values of two saves of the same audio file
RequestSamples ==
    [show : {MyShow}, episode : {<<"3">>},
     episode_title : {<<"M", "i", "x">>, <<"S", "e", "t">>},
     hosts : {HostsAB}, date : {Date2024}]

\* an operation that has composed its names and tags (lines 1321-1332) and
\* stands before validate_operation
Waiting(r) ==
    [pc |-> "waiting", mp3_path |-> SourceName,
     new_filename |-> generate_filename(r.show, r.episode, r.episode_title,
                                        r.hosts, r.date).filename,
     tags |-> prepare_tags(r.show, r.episode, r.episode_title, r.hosts, r.date),
     outcome |-> "none", seen |-> <<>>]

\* the operations other than p that are between their first and last step
Running(p) == {q \in Ops \ {p} : ops[q].pc \notin {"waiting", "done", "crashed"}}

\* a variant that lets an operation start at any time
StartsAnyTime(serial, running) == TRUE

\* whether an operation may start while those of running are under way: the
\* event loop, which serializes, runs a handler to its end before the next
MayStart(serial, running) == serial => running = {}

InitRace ==
    /\ fs = (SourceName :> TaggedAudio) @@ (TextName :> OtherFile)
    /\ images = [p \in {CoverPath} |-> GoodImage]
    /\ Idle
    /\ args = NoArgs
    /\ ret = NoRet
    /\ serialized \in BOOLEAN
    /\ ops \in [Ops -> {Waiting(r) : r \in RequestSamples}]
    /\ AutoloadIdle

\* the call call of operation p, its result, and whether the path it acts
\* on was missing
OpCalled(p, call, result, missing) ==
    [proc |-> p, call |-> call, result |-> result, missing |-> missing]

\* lines 1343-1347, with v the result of validate_operation
OpValidated(p, v) ==
    /\ ops' = [ops EXCEPT ![p].pc = AfterValidateOperation(v.success),
                          ![p].outcome = IF v.success THEN "none" ELSE "failed"]
    /\ hist' = Append(hist, OpCalled(p, "validate_operation", ResultOf(v.success),
                                     ~Exists(fs, ops[p].mp3_path)))

\* lines 1343-1347: validate_operation
OpValidateOperation ==
    /\ \E p \in Ops :
         /\ ops[p].pc = "waiting"
         /\ MayStart(serialized, Running(p))
         /\ OpValidated(p, validate_operation(fs, ops[p].mp3_path, ops[p].new_filename))
    /\ UNCHANGED <<fs, images, form, pc, mode, valid_data, names, tags, cover_data,
                   outcome, report, evaluated, fs0, runs, args, ret, serialized,
                   autoloadVars>>

\* lines 1349-1350: no cover was selected
OpProcessCover ==
    /\ \E p \in Ops :
         /\ ops[p].pc = "cover"
         /\ ops' = [ops EXCEPT ![p].pc = AfterCover(TRUE)]
    /\ UNCHANGED <<fs, images, form, pc, mode, valid_data, names, tags, cover_data,
                   outcome, report, hist, evaluated, fs0, runs, args, ret, serialized,
                   autoloadVars>>

\* lines 1359-1362: write_id3_tags
OpWriteTags ==
    /\ \E p \in Ops :
         /\ ops[p].pc = "write"
         /\ \E result \in TagWriteResults(fs, ops[p].mp3_path), partial \in BOOLEAN :
              /\ (partial => result = "error")
              /\ ops' = [ops EXCEPT
                           ![p].pc = AfterTagWrite(result),
                           ![p].outcome = CASE result = "ok" -> "none"
                                            [] result = "error" -> "failed"
                                            [] result = "raised" -> "exception"]
              /\ hist' = Append(hist, OpCalled(p, "write_id3_tags", result,
                                               ~Exists(fs, ops[p].mp3_path)))
              /\ fs' = IF result = "ok" \/ partial
                       THEN Saved(fs, ops[p].mp3_path, ops[p].tags, NoCover)
                       ELSE fs
    /\ UNCHANGED <<images, form, pc, mode, valid_data, names, tags, cover_data,
                   outcome, report, evaluated, fs0, runs, args, ret, serialized,
                   autoloadVars>>

\* lines 1364-1372: rename_mp3_file; seen is the title the file carries
\* under its new name when the rename has succeeded
OpRenameFile ==
    /\ \E p \in Ops :
         /\ ops[p].pc = "rename"
         /\ \E success \in BOOLEAN :
              /\ (success => Exists(fs, ops[p].mp3_path))
              /\ ops' = [ops EXCEPT
                           ![p].pc = "done",
                           ![p].outcome = SaveOutcome(success),
                           ![p].seen = IF success
                                       THEN fs[ops[p].mp3_path].frames[<<"TIT2">>]
                                       ELSE <<>>]
              /\ hist' = Append(hist, OpCalled(p, "rename_mp3_file", ResultOf(success),
                                               ~Exists(fs, ops[p].mp3_path)))
              /\ fs' = IF success
                       THEN Renamed(fs, ops[p].mp3_path, ops[p].new_filename)
                       ELSE fs
    /\ UNCHANGED <<images, form, pc, mode, valid_data, names, tags, cover_data,
                   outcome, report, evaluated, fs0, runs, args, ret, serialized,
                   autoloadVars>>

NextRace ==
    \/ OpValidateOperation
    \/ OpProcessCover
    \/ OpWriteTags
    \/ OpRenameFile

SpecRace == InitRace /\ [][NextRace]_vars

(* ------------------------------------------------------------------ *)
(* MP3TaggerGUI: the autoload preference over restarts                  *)
(* ------------------------------------------------------------------ *)

\* lines 989-1008: load_autoload_preference on the file config with the
\* template files files on disk; returns [found, template_path]
load_autoload_preference(config, files) ==
    IF /\ config.state = "written"
       /\ config.enabled
       /\ config.template_path # ""
       /\ config.template_path \in files
    THEN [found |-> TRUE, template_path |-> config.template_path]
    ELSE [found |-> FALSE, template_path |-> ""]

\* lines 973-987: autoload.json after save_autoload_preference(template_path);
\* the write succeeds, fails before the file is opened, or fails half-way
save_autoload_preference(config, template_path, outcome_of_write) ==
    CASE outcome_of_write = "written" ->
             [state |-> "written", enabled |-> TRUE, template_path |-> template_path]
      [] outcome_of_write = "failed" -> config
      [] outcome_of_write = "corrupt" ->
             [state |-> "corrupt", enabled |-> FALSE, template_path |-> ""]

InitAutoload ==
    /\ fs = (SourceName :> TaggedAudio)
    /\ images = [p \in {CoverPath} |-> GoodImage]
    /\ Idle
    /\ args = NoArgs
    /\ ret = NoRet
    /\ OthersIdle

\* what the template file t holds
TemplateData(t) ==
    IF t = "show.json"
    THEN [contributors |-> HostsAB, show_name |-> MyShow]
    ELSE [contributors |-> <<>>, show_name |-> <<"N", "e", "w", "s">>]

\* lines 1017-1021: the entries of a new window, filled from the template t
\* when one is loaded
Entries(t) ==
    IF t = ""
    THEN [form EXCEPT !.hosts = <<>>, !.show = <<>>]
    ELSE [form EXCEPT !.hosts = TemplateData(t).contributors,
                      !.show = TemplateData(t).show_name]

\* with p what load_autoload_preference returned: lines 679-687 and
\* auto_load_template
Started(p) ==
    /\ autoload_enabled' = p.found
    /\ autoload_template_path' = p.template_path
    /\ autoloaded' = p.template_path
    /\ form' = Entries(p.template_path)

\* lines 673-687: the application starts
StartApp ==
    /\ app = "closed"
    /\ starts < MaxStarts
    /\ starts' = starts + 1
    /\ app' = "open"
    /\ Started(load_autoload_preference(autoload_json, template_files))
    /\ UNCHANGED <<fs, images, pc, mode, valid_data, names, tags, cover_data,
                   outcome, report, hist, evaluated, fs0, runs, args, ret,
                   ops, serialized, autoload_json, template_files>>

\* lines 931-971: toggle_autoload; turning autoload on asks for a template
\* file ("" when the dialog is cancelled) that may be unreadable
ToggleAutoload ==
    /\ app = "open"
    /\ IF ~autoload_enabled
       THEN \E file_path \in TemplateSamples \cup {""},
               outcome_of_write \in {"written", "failed", "corrupt"} :
              IF file_path \in template_files
              THEN /\ autoload_enabled' = TRUE
                   /\ autoload_template_path' = file_path
                   /\ autoload_json' =
                        save_autoload_preference(autoload_json, file_path, outcome_of_write)
              ELSE /\ outcome_of_write = "failed"
                   /\ UNCHANGED <<autoload_enabled, autoload_template_path, autoload_json>>
       ELSE /\ autoload_enabled' = FALSE
            /\ autoload_template_path' = ""
            /\ UNCHANGED autoload_json
    /\ UNCHANGED <<fs, images, form, pc, mode, valid_data, names, tags, cover_data,
                   outcome, report, hist, evaluated, fs0, runs, args, ret,
                   ops, serialized, app, template_files, autoloaded, starts>>

\* the window is closed: the process ends, the files stay
CloseApp ==
    /\ app = "open"
    /\ app' = "closed"
    /\ UNCHANGED <<fs, images, form, pc, mode, valid_data, names, tags, cover_data,
                   outcome, report, hist, evaluated, fs0, runs, args, ret,
                   ops, serialized, autoload_enabled, autoload_template_path,
                   autoload_json, template_files, autoloaded, starts>>

\* a template file is deleted
TemplateDeleted ==
    /\ \E t \in template_files : template_files' = template_files \ {t}
    /\ UNCHANGED <<fs, images, form, pc, mode, valid_data, names, tags, cover_data,
                   outcome, report, hist, evaluated, fs0, runs, args, ret,
                   ops, serialized, app, autoload_enabled, autoload_template_path,
                   autoload_json, autoloaded, starts>>

NextAutoload ==
    \/ StartApp
    \/ ToggleAutoload
    \/ CloseApp
    \/ TemplateDeleted

SpecAutoload == InitAutoload /\ [][NextAutoload]_vars

(* ------------------------------------------------------------------ *)
(* Properties                                                           *)
(* ------------------------------------------------------------------ *)

\* the running (or last) operation called the engine function call
HasCalled(call) == \E i \in 1..Len(hist) : hist[i].call = call

\* ... and got result from it
HasResult(call, result) ==
    \E i \in 1..Len(hist) : hist[i].call = call /\ hist[i].result = result

\* the operation is over: process_operation returned or was left by an exception
RunEnded == pc \in {"done", "crashed"}

OriginalSuffix == <<".", "o", "r", "i", "g", "i", "n", "a", "l">>

\* the sibling path <original>.original
BackupPath(path) == path \o OriginalSuffix

\* C1: in a save, when write_id3_tags fails (it returns a failure, or lets an
\* exception through), rename_mp3_file is not called, the operation ends
\* failed (with the tag writer's message when a result came back), and the
\* directory has the same entries as before, the audio file under its name.
C1_TagFailureLeavesName ==
    (HasCalled("write_id3_tags") /\ ~HasResult("write_id3_tags", "ok")) =>
        /\ ~HasCalled("rename_mp3_file")
        /\ RunEnded
        /\ outcome \in {"failed", "exception"}
        /\ outcome = "failed" => (~report.success /\ report.message = TagWriteMessage)
        /\ DOMAIN fs = DOMAIN fs0
        /\ Exists(fs, valid_data.mp3_path)

C1_Witness ==
    /\ HasResult("write_id3_tags", "error")
    /\ outcome = "failed"
    /\ Exists(fs, valid_data.mp3_path)

\* C2: once a save has called write_id3_tags, a copy of the original audio
\* file exists at <original>.original.
C2_BackupBeforeMutation ==
    HasCalled("write_id3_tags") =>
        /\ Exists(fs, BackupPath(valid_data.mp3_path))
        /\ fs[BackupPath(valid_data.mp3_path)] = fs0[valid_data.mp3_path]

\* C3: a save that ended in success without a backup of the original at
\* <original>.original records a warning about the backup.
C3_BackupFailureWarns ==
    (pc = "done" /\ outcome = "success" /\ ~Exists(fs, BackupPath(valid_data.mp3_path))) =>
        "backup" \in report.warnings

\* C4: when rename_mp3_file fails after write_id3_tags succeeded, the save
\* ends failed with the rename error, the file is still under its old name,
\* and it carries the new tags: the write is not rolled back.
C4_RenameFailureKeepsTags ==
    HasResult("rename_mp3_file", "fail") =>
        /\ HasResult("write_id3_tags", "ok")
        /\ pc = "done"
        /\ outcome = "failed"
        /\ ~report.success
        /\ report.message = RenameMessage
        /\ DOMAIN fs = DOMAIN fs0
        /\ Exists(fs, valid_data.mp3_path)
        /\ fs[valid_data.mp3_path].hasHeader
        /\ fs[valid_data.mp3_path].frames[<<"TIT2">>] = tags.title
        /\ fs[valid_data.mp3_path].frames[<<"TALB">>] = tags.album
        /\ fs[valid_data.mp3_path].frames[<<"TPE1">>] = tags.artist
        /\ fs[valid_data.mp3_path].frames[<<"TRCK">>] = tags.track_number

C4_Witness ==
    /\ HasResult("rename_mp3_file", "fail")
    /\ fs[valid_data.mp3_path] # fs0[valid_data.mp3_path]
    /\ fs[valid_data.mp3_path].frames[<<"TIT2">>] = tags.title

\* C5: when validate_all_inputs or validate_operation fails, the operation
\* ends with the directory as it was: no tag write and no rename were called
\* (the program has no backup step).
C5_ValidationFailureTouchesNothing ==
    (outcome = "invalid" \/ HasResult("validate_operation", "fail")) =>
        /\ pc = "done"
        /\ fs = fs0
        /\ ~HasCalled("write_id3_tags")
        /\ ~HasCalled("rename_mp3_file")
        /\ ~report.success

C5_Witness ==
    /\ mode = "save"
    /\ HasResult("validate_operation", "fail")
    /\ report.message = "File with target name already exists"

CoverMessages ==
    {"Cannot open image", "PNG images with transparency are not allowed",
     "Error processing image"}

\* C6: when a save reports a cover image error, it has called neither
\* write_id3_tags nor rename_mp3_file, the directory is as it was, and the
\* operation is over, so that it calls neither afterwards.
C6_CoverErrorBeforeMutation ==
    (mode = "save" /\ report.message \in CoverMessages) =>
        /\ pc = "done"
        /\ outcome \in {"invalid", "failed"}
        /\ ~HasCalled("write_id3_tags")
        /\ ~HasCalled("rename_mp3_file")
        /\ fs = fs0

C6_Witness ==
    /\ mode = "save"
    /\ HasResult("process_cover_art", "fail")
    /\ report.message \in CoverMessages

\* the order of the fields the specification gives
FieldOrder == <<"file", "hosts", "show", "episode", "date", "cover">>

\* C7: validate_all_inputs evaluates the fields in the order file,
\* contributors, show, episode number, date, cover, and stops at the first
\* field that fails: every field it evaluated before the last one is valid,
\* the error it reports is that of the last one, and with no error it has
\* evaluated them all.
C7_FirstFailingFieldReported ==
    [][runs' = runs + 1 =>
         /\ Len(evaluated') >= 1
         /\ evaluated' = SubSeq(FieldOrder, 1, Len(evaluated'))
         /\ \A i \in 1..(Len(evaluated') - 1) :
                FieldChecks(form, fs, images)[evaluated'[i]].success
         /\ outcome' = "invalid" =>
                /\ ~FieldChecks(form, fs, images)[evaluated'[Len(evaluated')]].success
                /\ report'.message =
                       FieldChecks(form, fs, images)[evaluated'[Len(evaluated')]].message
         /\ outcome' # "invalid" =>
                /\ Len(evaluated') = Len(FieldOrder)
                /\ \A i \in 1..Len(FieldOrder) :
                       FieldChecks(form, fs, images)[FieldOrder[i]].success
      ]_vars

\* two fields are invalid and the error is that of the earlier one
C7_Witness ==
    /\ outcome = "invalid"
    /\ evaluated = <<"file", "hosts">>
    /\ report.message = "Hosts must be comma-separated with space after comma"
    /\ Strip(form.show) = <<>>

\* the arguments are metadata as validation leaves them
ValidMetadata(a) ==
    /\ a.show # <<>> /\ Strip(a.show) = a.show
    /\ Strip(a.episode_title) = a.episode_title
    /\ validate_episode_number(a.episode).success
    /\ validate_episode_number(a.episode).value = a.episode
    /\ validate_hosts(a.hosts).success
    /\ validate_hosts(a.hosts).value = a.hosts
    /\ get_broadcast_date(a.date).success
    /\ get_broadcast_date(a.date).value = a.date

\* the filename without its extension
Stem(filename) == SubSeq(filename, 1, Len(filename) - Len(Mp3Ext))

\* the untruncated composition of the arguments
FullParts(a) == build_filename_parts(a.show, a.episode, a.episode_title, a.hosts, a.date)

\* where the episode title stands in the composition
TitlePosition(a) == IF a.episode # <<>> THEN 3 ELSE 2

\* parts is the composition of a with its episode title cut to a prefix
\* that ends in one ellipsis
CutAtTitle(parts, a) ==
    /\ Len(parts) = Len(FullParts(a))
    /\ \A i \in 1..Len(parts) : i # TitlePosition(a) => parts[i] = FullParts(a)[i]
    /\ \E k \in 0..Len(a.episode_title) :
          parts[TitlePosition(a)] = Prefix(a.episode_title, k) \o <<Ellipsis>>

\* C8: for valid metadata with an episode title, the filename before the
\* extension is the untruncated join when that has at most 100 characters,
\* and otherwise is cut at the episode title with one trailing ellipsis and
\* has at most 100 characters.
C8_TruncatedWithinLimit ==
    (ret.op = "generate_filename" /\ ValidMetadata(args) /\ args.episode_title # <<>>) =>
        IF Len(Join(FullParts(args), Sep)) <= 100
        THEN Stem(ret.filename) = Join(FullParts(args), Sep)
        ELSE /\ CutAtTitle(ret.parts, args)
             /\ Stem(ret.filename) = Join(ret.parts, Sep)
             /\ Len(Stem(ret.filename)) <= 100

\* C9: when the episode title is truncated with a positive remaining budget,
\* the filename without the extension has exactly 100 characters and
\* truncated is true.
C9_TruncatedLengthIsLimit ==
    (/\ ret.op = "generate_filename"
     /\ ValidMetadata(args)
     /\ args.episode_title # <<>>
     /\ Len(Join(FullParts(args), Sep)) > 100
     /\ RemainingBudget(FullParts(args), args.episode_title) > 0) =>
        /\ ret.was_truncated
        /\ Len(Stem(ret.filename)) = 100

\* C10: for every input, the show, episode-number, contributors and date
\* segments of the filename are those of the untruncated composition.
C10_OnlyTitleShortened ==
    (ret.op = "generate_filename" /\ args.episode_title # <<>>) =>
        /\ Len(ret.parts) = Len(FullParts(args))
        /\ \A i \in 1..Len(ret.parts) :
              i # TitlePosition(args) => ret.parts[i] = FullParts(args)[i]

\* the fields that follow the show in a title, in order
OptionalFields(a) == <<a.episode, a.episode_title, a.hosts, a.date>>

\* the show followed by the non-empty ones of the optional fields
ShowAndNonEmpty(a) == <<a.show>> \o SelectSeq(OptionalFields(a), LAMBDA f : f # <<>>)

\* C11: for every input, the title prepare_tags returns is the " - "-join of
\* the show followed by the non-empty ones of episode number, episode title,
\* contributors and date, in that order and in full, whether or not
\* generate_filename truncates the filename of the same input.
C11_TagTitleIsFullJoin ==
    ret.op = "prepare_tags" => ret.tags.title = Join(ShowAndNonEmpty(args), Sep)

\* the filename of the same input is truncated and the tag title is not
C11_Witness ==
    /\ ret.op = "prepare_tags"
    /\ generate_filename(args.show, args.episode, args.episode_title, args.hosts,
                         args.date).was_truncated
    /\ Occurs(args.episode_title, ret.tags.title)
    /\ Len(ret.tags.title) > 100

\* C12: sanitize_filename is idempotent: applied to its own result, it
\* returns that result.
C12_SanitizeIdempotent ==
    ret.op = "sanitize_filename" => sanitize_filename(ret.value) = ret.value

\* two separators with nothing between them
DoubleSeparator == <<" ", "-", " ", " ", "-", " ">>

\* C13: for every input, neither the title prepare_tags returns nor the
\* filename generate_filename returns contains " -  - ", an empty segment
\* between two separators.
C13_NoEmptySegment ==
    /\ ret.op = "prepare_tags" => ~Occurs(DoubleSeparator, ret.tags.title)
    /\ ret.op = "generate_filename" => ~Occurs(DoubleSeparator, ret.filename)

\* the keys of the embedded images of a file
Pictures(content) == {k \in DOMAIN content.frames : k[1] = "APIC"}

\* every call so far returned success
AllSucceeded == \A i \in 1..Len(hist) : hist[i].result = "ok"

\* C14: after a sequence of successful write_id3_tags calls on a file, the
\* file holds exactly one embedded image, a front cover (type 3) with the
\* bytes of the last call, when the last call supplied cover bytes, and no
\* embedded image when it supplied none.
C14_AtMostOneCover ==
    (ret.op = "write_id3_tags" /\ AllSucceeded) =>
        IF args.cover_data.present
        THEN /\ Pictures(fs[args.mp3_path]) = {<<"APIC", "Cover">>}
             /\ fs[args.mp3_path].frames[<<"APIC", "Cover">>].type = 3
             /\ fs[args.mp3_path].frames[<<"APIC", "Cover">>].data = args.cover_data.data
        ELSE Pictures(fs[args.mp3_path]) = {}

\* two successful calls on a file that came with an image under another
\* description, the last one with cover bytes
C14_Witness ==
    /\ ret.op = "write_id3_tags"
    /\ AllSucceeded
    /\ Len(hist) >= 2
    /\ Pictures(fs0[args.mp3_path]) = {<<"APIC", "Old">>}
    /\ args.cover_data.present
    /\ Pictures(fs[args.mp3_path]) = {<<"APIC", "Cover">>}

\* C15: every call of write_id3_tags returns a result, success or failure:
\* no exception leaves the function.
C15_NoExceptionEscapes ==
    ret.op = "write_id3_tags" => ret.result \in {"ok", "error"}

\* DD.MM.YYYY: two digits, a period, two digits, a period, four digits
Canonical(v) ==
    /\ Len(v) = 10
    /\ v[3] = "." /\ v[6] = "."
    /\ \A i \in {1, 2, 4, 5, 7, 8, 9, 10} : v[i] \in Digits

\* v and w name the same day, month and year
SameDate(v, w) ==
    /\ Len(Split(v, ".")) = 3 /\ Len(Split(w, ".")) = 3
    /\ \A i \in 1..3 : NumVal(Split(v, ".")[i]) = NumVal(Split(w, ".")[i])

\* v names a day of the calendar
InCalendar(v) ==
    /\ NumVal(Split(v, ".")[1]) \in 1..DaysInMonth(NumVal(Split(v, ".")[2]), NumVal(Split(v, ".")[3]))
    /\ NumVal(Split(v, ".")[2]) \in 1..12

\* C16: get_broadcast_date rejects the blank input and every date that is not
\* in the calendar (31.02.2024 and 29.02.2023 fail, 29.02.2024 succeeds), and
\* the value of every accepted input is the same date in the zero-padded
\* form DD.MM.YYYY.
C16_DateCanonical ==
    ret.op = "get_broadcast_date" =>
        /\ Strip(args.text) = <<>> => ~ret.result.success
        /\ args.text = <<"3", "1", ".", "0", "2", ".", "2", "0", "2", "4">> => ~ret.result.success
        /\ args.text = <<"2", "9", ".", "0", "2", ".", "2", "0", "2", "3">> => ~ret.result.success
        /\ args.text = <<"2", "9", ".", "0", "2", ".", "2", "0", "2", "4">> => ret.result.success
        /\ ret.result.success =>
              /\ Canonical(ret.result.value)
              /\ SameDate(ret.result.value, Strip(args.text))
              /\ InCalendar(ret.result.value)

\* every character of s is whitespace
Blank(s) == \A i \in 1..Len(s) : s[i] \in Whitespace

\* v is a list of names separated by ", " only: every comma stands after a
\* name and before one space and a name, and every other whitespace is one
\* space between two other characters
WellSeparated(v) ==
    /\ Len(v) >= 1
    /\ \A i \in 1..Len(v) :
          v[i] = "," =>
             /\ i > 1 /\ v[i - 1] \notin Whitespace \cup {","}
             /\ i + 2 <= Len(v) /\ v[i + 1] = " " /\ v[i + 2] \notin Whitespace \cup {","}
    /\ \A i \in 1..Len(v) :
          v[i] \in Whitespace =>
             /\ v[i] = " "
             /\ i > 1 /\ i < Len(v)
             /\ v[i + 1] \notin Whitespace

\* s has a comma with no name before it or after it
HasEmptySegment(s) ==
    \E i \in 1..Len(Split(s, ",")) : Len(Split(s, ",")) > 1 /\ Blank(Split(s, ",")[i])

\* C17: validate_hosts accepts the blank input with an empty value and an
\* advisory message; the value of every other accepted input is a list with
\* ", " as its only separator, no empty segment and no run of whitespace
\* ("DJ A,DJ B" gives "DJ A, DJ B"); inputs with an empty segment are rejected.
C17_HostsNormalized ==
    ret.op = "validate_hosts" =>
        /\ Blank(args.text) =>
              /\ ret.result.success
              /\ ret.result.value = <<>>
              /\ ret.result.message # ""
        /\ (~Blank(args.text) /\ ret.result.success) => WellSeparated(ret.result.value)
        /\ (~Blank(args.text) /\ HasEmptySegment(args.text)) => ~ret.result.success
        /\ args.text = <<"D", "J", " ", "A", ",", "D", "J", " ", "B">> =>
              /\ ret.result.success
              /\ ret.result.value = <<"D", "J", " ", "A", ",", " ", "D", "J", " ", "B">>

\* an accepted list whose commas and whitespace had to be rewritten
C17_Witness ==
    /\ ret.op = "validate_hosts"
    /\ args.text = <<"A", "\t", ",", "A">>
    /\ ret.result.success
    /\ ret.result.value = <<"A", ",", " ", "A">>

\* s has a character that is no decimal digit
HasNonDigit(s) == \E i \in 1..Len(s) : s[i] \notin Digits

\* v is the decimal numeral, without leading zeros, of the number s writes
NumeralOf(v, s) ==
    /\ Len(v) >= 1
    /\ \A i \in 1..Len(v) : v[i] \in Digits
    /\ Len(v) > 1 => v[1] # "0"
    /\ NumVal(v) = NumVal(s)

\* C18: validate_episode_number returns a result for every input: the blank
\* input is valid with an empty value, an input with a non-digit is
\* rejected, and an input of digits is accepted with the numeral without
\* leading zeros as its value.
C18_EpisodeNumberTotal ==
    ret.op = "validate_episode_number" =>
        /\ ~ret.result.raised
        /\ Blank(args.text) => (ret.result.success /\ ret.result.value = <<>>)
        /\ (~Blank(args.text) /\ HasNonDigit(Strip(args.text))) => ~ret.result.success
        /\ (~Blank(args.text) /\ ~HasNonDigit(Strip(args.text))) =>
              /\ ret.result.success
              /\ NumeralOf(ret.result.value, Strip(args.text))

\* the sample names whose extension is mp3 in some case
Mp3Names == {SourceName, TargetName, FreeName, GoneName}

\* C19: validate_operation fails exactly when the source file is missing, or
\* its extension is not mp3 in any case, or an entry other than the source
\* file exists under the new name in its directory; a new name equal to the
\* source file's name is allowed.
C19_OperationValidity ==
    ret.op = "validate_operation" =>
        /\ ~ret.result.success <=>
              \/ args.mp3_path \notin DOMAIN fs
              \/ args.mp3_path \notin Mp3Names
              \/ args.new_filename \in DOMAIN fs /\ args.new_filename # args.mp3_path
        /\ (args.mp3_path \in DOMAIN fs /\ args.mp3_path \in Mp3Names
              /\ args.new_filename = args.mp3_path) => ret.result.success

\* the new name is the name of the source file, which exists
C19_Witness ==
    /\ ret.op = "validate_operation"
    /\ args.new_filename = args.mp3_path
    /\ args.new_filename \in DOMAIN fs
    /\ ret.result.success

\* the modes with an alpha channel
AlphaModes == {"RGBA", "LA", "PA"}

\* the larger of two numbers
Larger(a, b) == IF a >= b THEN a ELSE b

\* the w2 x h2 image has the aspect ratio of the w x h image, as far as whole
\* pixels allow: each side is less than one pixel off the exact one
SameAspect(w2, h2, w, h) == Abs(w2 * h - w * h2) < Larger(w, h)

\* C20: process_cover_art rejects, with no bytes, every image with an alpha
\* channel or with palette transparency; the result of every accepted image
\* has no side above 1400 pixels and the aspect ratio of the image (3000x2000
\* comes out with its larger side at most 1400), and an image within
\* 1400x1400 keeps its size.
C20_CoverRejectedOrBounded ==
    ret.op = "process_cover_art" =>
        /\ (/\ images[args.cover_path].opens
            /\ \/ images[args.cover_path].mode \in AlphaModes
               \/ images[args.cover_path].mode = "P" /\ images[args.cover_path].transparency)
              => (~ret.result.success /\ ~ret.result.value.present)
        /\ ret.result.success =>
              /\ ret.result.value.width \in 1..1400
              /\ ret.result.value.height \in 1..1400
              /\ SameAspect(ret.result.value.width, ret.result.value.height,
                            images[args.cover_path].width, images[args.cover_path].height)
              /\ (images[args.cover_path].width <= 1400 /\ images[args.cover_path].height <= 1400)
                    => /\ ret.result.value.width = images[args.cover_path].width
                       /\ ret.result.value.height = images[args.cover_path].height

\* C21: a save that ended in success reports the resulting path, the composed
\* filename in the directory of the source file, and reports a cover as
\* embedded exactly when cover bytes were written; the audio file, with the
\* tags written, is at the resulting path and no longer at the original path
\* unless the two are equal.
C21_SuccessReportsResult ==
    (pc = "done" /\ outcome = "success") =>
        /\ mode = "save"
        /\ report.success
        /\ report.new_filepath = NameFor(valid_data)
        /\ report.cover_embedded = cover_data.present
        /\ Exists(fs, report.new_filepath)
        /\ fs[report.new_filepath] =
               Saved(fs0, valid_data.mp3_path, tags, cover_data)[valid_data.mp3_path]
        /\ report.cover_embedded = (Pictures(fs[report.new_filepath]) # {})
        /\ report.new_filepath # valid_data.mp3_path => ~Exists(fs, valid_data.mp3_path)

\* a save with a cover succeeded and gave the file a new name
C21_Witness ==
    /\ pc = "done"
    /\ outcome = "success"
    /\ report.cover_embedded
    /\ report.new_filepath # valid_data.mp3_path
    /\ Exists(fs, report.new_filepath)
    /\ Exists(fs0, valid_data.mp3_path)

\* a tag write or a rename acted on a path that was no longer there
ActedOnMissingPath ==
    \E i \in 1..Len(hist) :
        /\ hist[i].call \in {"write_id3_tags", "rename_mp3_file"}
        /\ hist[i].missing

\* an operation succeeded and the file it named carried a title that is not
\* the one it wrote
NameAndTagsDiffer ==
    \E p \in Ops : ops[p].outcome = "success" /\ ops[p].seen # ops[p].tags.title

\* C22: when the save operations on an audio file are serialized, no
\* operation's tag write or rename acts on a path another operation has
\* renamed away, and the name and the tags of a successful save come from
\* the same operation; without serialization such a state is reachable (the
\* witness).
C22_SerializedSavesDoNotRace ==
    serialized => (~ActedOnMissingPath /\ ~NameAndTagsDiffer)

\* two interleaved saves: one renamed the file while it carried the other's
\* tags, and the other then acted on the path that was gone
C22_Witness ==
    /\ ~serialized
    /\ ActedOnMissingPath
    /\ NameAndTagsDiffer

\* C23: every filename generate_filename returns ends in ".mp3", and its part
\* before the extension holds none of the characters \ / : * ? " < > |, has
\* no leading or trailing whitespace and does not end in a period.
C23_FilenameIsSafe ==
    ret.op = "generate_filename" =>
        /\ Len(ret.filename) >= Len(Mp3Ext)
        /\ SubSeq(ret.filename, Len(ret.filename) - Len(Mp3Ext) + 1, Len(ret.filename)) = Mp3Ext
        /\ \A i \in 1..Len(Stem(ret.filename)) : Stem(ret.filename)[i] \notin ForbiddenChars
        /\ Stem(ret.filename) # <<>> =>
              /\ Stem(ret.filename)[1] \notin Whitespace
              /\ Stem(ret.filename)[Len(Stem(ret.filename))] \notin Whitespace
              /\ Stem(ret.filename)[Len(Stem(ret.filename))] # "."

\* C24: generate_filename reports was_truncated exactly when the " - "-join
\* of the untruncated filename parts is longer than 100 characters; when the
\* join has at most 100 characters the parts, the episode title among them,
\* are returned unchanged; and a filename that is not reported truncated has
\* at most 100 characters before the extension.
C24_TruncatedFlagIsExact ==
    ret.op = "generate_filename" =>
        /\ ret.was_truncated = (Len(Join(FullParts(args), Sep)) > 100)
        /\ Len(Join(FullParts(args), Sep)) <= 100 => ret.parts = FullParts(args)
        /\ ~ret.was_truncated => Len(Stem(ret.filename)) <= 100

\* the frames write_id3_tags sets or deletes: title, artist, album, track
\* number, composer and the embedded images
TouchedFrames == {"TIT2", "TPE1", "TALB", "TRCK", "TCOM", "APIC"}

\* the frame of key k is the same in the contents before and after
SameFrame(before, after, k) ==
    (k \in DOMAIN before.frames) = (k \in DOMAIN after.frames)
      /\ (k \in DOMAIN before.frames => after.frames[k] = before.frames[k])

\* C25: a successful call of write_id3_tags leaves every frame the file had,
\* other than title, artist, album, track number, composer and embedded
\* images, with the value it had before the call, and with an empty date it
\* writes no composer frame.
C25_UntouchedFramesPreserved ==
    [][(/\ ret'.op = "write_id3_tags"
        /\ Len(hist') = Len(hist) + 1
        /\ ret'.result = "ok") =>
          /\ \A k \in DOMAIN fs[args'.mp3_path].frames :
                k[1] \notin TouchedFrames =>
                    SameFrame(fs[args'.mp3_path], fs'[args'.mp3_path], k)
          /\ args'.tags.composer = <<>> =>
                SameFrame(fs[args'.mp3_path], fs'[args'.mp3_path], <<"TCOM">>)
      ]_vars

\* C26: a save replaces no file other than the source. rename_mp3_file is
\* reached only after validate_operation succeeded in the same run; when it
\* is reached the directory has the entries it had when the run began, and
\* the target path is absent or is the source path; and after the rename
\* every other entry the directory had is there with its contents.
C26_SaveReplacesNothing ==
    /\ pc = "rename" =>
          /\ HasResult("validate_operation", "ok")
          /\ DOMAIN fs = DOMAIN fs0
          /\ ~Exists(fs, names.filename) \/ names.filename = valid_data.mp3_path
    /\ HasCalled("rename_mp3_file") =>
          /\ HasResult("validate_operation", "ok")
          /\ \A n \in (DOMAIN fs0) \ {valid_data.mp3_path} :
                Exists(fs, n) /\ fs[n] = fs0[n]

\* a save renamed the file in a directory that holds another file
C26_Witness ==
    /\ HasResult("rename_mp3_file", "ok")
    /\ names.filename # valid_data.mp3_path
    /\ Exists(fs, names.filename)
    /\ Exists(fs0, TextName)
    /\ fs[TextName] = fs0[TextName]

\* C27: a preview changes neither the audio file nor the directory: for
\* every input, valid or invalid, the operation calls neither write_id3_tags
\* nor rename_mp3_file, and at every step of it the directory has the
\* entries, under the names and with the contents, it had when the preview
\* began; no backup entry appears.
C27_PreviewMutatesNothing ==
    (runs > 0 /\ mode = "preview") =>
        /\ ~HasCalled("write_id3_tags")
        /\ ~HasCalled("rename_mp3_file")
        /\ fs = fs0
        /\ pc \in {"generate", "done", "crashed"}

\* a preview of valid input ended with its report, after a save that had
\* changed the file
C27_Witness ==
    /\ mode = "preview"
    /\ pc = "done"
    /\ outcome = "preview"
    /\ report.success
    /\ runs = 2
    /\ Exists(fs, valid_data.mp3_path)
    /\ <<"TALB">> \in DOMAIN fs[valid_data.mp3_path].frames
    /\ fs = fs0

\* C28: a start of the application enables autoload, and loads a template,
\* only if autoload was enabled when the application was closed; after
\* autoload has been toggled off, the next start loads no template.
C28_AutoloadSurvivesRestart ==
    [][(app = "closed" /\ app' = "open") =>
          ((autoload_enabled' \/ autoloaded' # "") => autoload_enabled)
      ]_vars

====
